---- MODULE Spec2Model ----
(***************************************************************************)
(* Distance-vector routing simulator (src/src/distancevector.cpp).         *)
(*                                                                         *)
(* The state is the state of dvr(): the link list, the node-id set, the    *)
(* router collection with one routing table per router, the message list,  *)
(* and the position of the single thread of control inside                 *)
(* doBellmanFordAlg and sendMessages.  The three input files are the only  *)
(* source of nondeterminism: the topology file is chosen when              *)
(* initTopology runs, the message file when readMessagesFile runs, and     *)
(* each change record when the loop of dvr reaches it.                     *)
(***************************************************************************)
EXTENDS Integers, Sequences, FiniteSets, TLC

\* ------------------------------------------------------------------------
\* Bounds of the model
MaxNode == 3
MaxLinks == 3
MaxChanges == 1
MaxMsgs == 2
\* Stored costs are followed down to -CostFloor only (negative link costs can
\* make doBellmanFordAlg run for ever)
CostFloor == 12

\* Sentinels of the program
INFCOST == 9999
NOHOP == -1
REMOVE == -999

VARIABLES
    links,        \* std::vector<Link> links
    nodes,        \* std::set<int> nodes
    routers,      \* std::vector<Router> routers, as ID -> routing table
    messages,     \* std::vector<Message> messages (content text left out)
    pc,           \* position of control in dvr
    nchg,         \* number of change records consumed so far
    change,       \* dvr: the change record of the running loop iteration
    updated,      \* doBellmanFordAlg: bool updated
    rid,          \* doBellmanFordAlg: ID of the router of the outer loop
    did,          \* doBellmanFordAlg: destinationID
    lidx,         \* doBellmanFordAlg: index of the link of the inner loop
    curPathCost,  \* doBellmanFordAlg: int curPathCost
    newNextHop,   \* doBellmanFordAlg: int newNextHop
    midx,         \* sendMessages: index of the message being resolved
    pathCost,     \* sendMessages: int pathCost
    currentID,    \* sendMessages: int currentID
    hops,         \* sendMessages: the hop ids put into outMessage so far
    out,          \* lines put into outFile by the running sendMessages call
    file,         \* the output file: the blocks that have reached it, in order
    lsdb,         \* lsr: map<int, map<int, int>> lsdb
    routingTables,\* lsr: map<int, map<int, pair<int, int>>> routingTables
    changes       \* lsr: vector<Link> changes, as parseChangesFile returned it

vars == <<links, nodes, routers, messages, pc, nchg, change, updated, rid, did, lidx,
          curPathCost, newNextHop, midx, pathCost, currentID, hops, out, file,
          lsdb, routingTables, changes>>

bfLocals == <<updated, rid, did, lidx, curPathCost, newNextHop>>
sendLocals == <<midx, pathCost, currentID, hops, out>>
lsrLocals == <<lsdb, routingTables, changes>>

\* ------------------------------------------------------------------------
\* Helpers for ordered iteration (std::set and std::map iterate ascending)
SetMin(S) == CHOOSE x \in S : \A y \in S : x <= y
Above(S, x) == {y \in S : y > x}

Link(a, b, c) == [node1 |-> a, node2 |-> b, pathCost |-> c]

SeqsUpTo(S, n) == UNION {[1..k -> S] : k \in 0..n}

\* ------------------------------------------------------------------------
\* RoutingTable

\* Faulty variant: the constructor also makes an entry for the id 0
NewRoutingTableExtra(myID, ids) ==
    [id \in ids \cup {0} |-> IF id = myID THEN <<id, 0>> ELSE <<NOHOP, INFCOST>>]

NewRoutingTable(myID, ids) ==
    [id \in ids |-> IF id = myID THEN <<id, 0>> ELSE <<NOHOP, INFCOST>>]

\* Faulty variant: the next hop is replaced, the cost of an entry is kept
addRouteKeepsCost(table, destinationID, nextHopID, cost) ==
    [id \in DOMAIN table \cup {destinationID} |->
        IF id = destinationID
        THEN <<nextHopID, IF id \in DOMAIN table THEN table[id][2] ELSE cost>>
        ELSE table[id]]

addRoute(table, destinationID, nextHopID, cost) ==
    [id \in DOMAIN table \cup {destinationID} |->
        IF id = destinationID THEN <<nextHopID, cost>> ELSE table[id]]

contains(table, destinationID) == destinationID \in DOMAIN table

getNextHop(table, destinationID) ==
    IF contains(table, destinationID) THEN table[destinationID][1] ELSE -1

\* Faulty variant: an id without entry is answered like an unreachable one
getPathCostInfinite(table, destinationID) ==
    IF destinationID \in DOMAIN table THEN table[destinationID][2] ELSE INFCOST

getPathCost(table, destinationID) ==
    IF contains(table, destinationID) THEN table[destinationID][2] ELSE -1

\* getRouterByID throws when no router has the id; HasRouter is its guard
HasRouter(rs, id) == id \in DOMAIN rs

\* ------------------------------------------------------------------------
\* Faulty variant: only a link stored in the record's endpoint order is erased
removeLinkSameOrder(ls, linkToRemove) ==
    SelectSeq(ls, LAMBDA link :
        ~ (link.node1 = linkToRemove.node1 /\ link.node2 = linkToRemove.node2))

\* removeLink: erase every link joining the two endpoints, either orientation
removeLink(ls, linkToRemove) ==
    SelectSeq(ls, LAMBDA link :
        ~ ( (link.node1 = linkToRemove.node1 /\ link.node2 = linkToRemove.node2)
         \/ (link.node1 = linkToRemove.node2 /\ link.node2 = linkToRemove.node1)))

\* Faulty variant: the direct route is stored under the router's own id
RECURSIVE SeedLinksOwnId(_, _, _)
SeedLinksOwnId(rs, ls, i) ==
    IF i > Len(ls) THEN rs
    ELSE LET l == ls[i]
             r1 == [rs EXCEPT ![l.node1] = addRoute(@, l.node1, l.node2, l.pathCost)]
             r2 == [r1 EXCEPT ![l.node2] = addRoute(@, l.node2, l.node1, l.pathCost)]
         IN SeedLinksOwnId(r2, ls, i + 1)

\* Faulty variant: a direct route already seeded for the pair is kept
RECURSIVE SeedLinksFirstWins(_, _, _)
SeedLinksFirstWins(rs, ls, i) ==
    IF i > Len(ls) THEN rs
    ELSE LET l == ls[i]
             r1 == IF rs[l.node1][l.node2] = <<NOHOP, INFCOST>>
                   THEN [rs EXCEPT ![l.node1] = addRoute(@, l.node2, l.node2, l.pathCost)]
                   ELSE rs
             r2 == IF r1[l.node2][l.node1] = <<NOHOP, INFCOST>>
                   THEN [r1 EXCEPT ![l.node2] = addRoute(@, l.node1, l.node1, l.pathCost)]
                   ELSE r1
         IN SeedLinksFirstWins(r2, ls, i + 1)

\* The seeding loop shared by initTopology and applyChange: for each link in
\* list order, a direct route on both endpoints (a later link overwrites)
RECURSIVE SeedLinks(_, _, _)
SeedLinks(rs, ls, i) ==
    IF i > Len(ls) THEN rs
    ELSE LET l == ls[i]
             r1 == [rs EXCEPT ![l.node1] = addRoute(@, l.node2, l.node2, l.pathCost)]
             r2 == [r1 EXCEPT ![l.node2] = addRoute(@, l.node1, l.node1, l.pathCost)]
         IN SeedLinks(r2, ls, i + 1)

NewRouters(ids) == [id \in ids |-> NewRoutingTable(id, ids)]

SeedRouters(ids, ls) == SeedLinks(NewRouters(ids), ls, 1)

LinkNodes(ls) == UNION {{ls[i].node1, ls[i].node2} : i \in 1..Len(ls)}

\* ------------------------------------------------------------------------
\* Input families.  A topology line joins two distinct nodes and carries a
\* non-negative cost; a change line carries a cost or the removal sentinel.
NodeIds == 1..MaxNode
Costs == {0, 1, 3}

LinkRecs == {Link(a, b, c) : <<a, b>> \in {p \in NodeIds \X NodeIds : p[1] < p[2]}, c \in Costs}

TopoFiles == SeqsUpTo(LinkRecs, MaxLinks)

Removals == {Link(p[1], p[2], REMOVE) : p \in {q \in NodeIds \X NodeIds : q[1] # q[2]}}

ChangeRecs == LinkRecs \cup Removals

Message(s, d) == [sourceID |-> s, destinationID |-> d]

\* One message per ordered pair of known nodes, ascending
RECURSIVE PairSeq(_, _)
PairSeq(S, ids) ==
    IF S = {} THEN <<>>
    ELSE LET s == SetMin(S)
             RECURSIVE Row(_)
             Row(D) == IF D = {} THEN <<>>
                       ELSE <<Message(s, SetMin(D))>> \o Row(D \ {SetMin(D)})
         IN Row(ids) \o PairSeq(S \ {s}, ids)

MsgFiles(known) == {PairSeq(known, known)}

\* ------------------------------------------------------------------------
\* Initial state: dvr has declared its empty containers
Init ==
    /\ links = <<>>
    /\ nodes = {}
    /\ routers = <<>>
    /\ messages = <<>>
    /\ pc = "start"
    /\ nchg = 0
    /\ change = Link(0, 0, 0)
    /\ updated = FALSE
    /\ rid = 0
    /\ did = 0
    /\ lidx = 0
    /\ curPathCost = 0
    /\ newNextHop = NOHOP
    /\ midx = 0
    /\ pathCost = 0
    /\ currentID = 0
    /\ hops = <<>>
    /\ out = <<>>
    /\ file = <<>>
    /\ lsdb = <<>>
    /\ routingTables = <<>>
    /\ changes = <<>>

\* initTopology: read the links, build one router per node, seed direct routes
initTopology(files) ==
    /\ pc = "start"
    /\ \E ls \in files :
          /\ links' = ls
          /\ nodes' = LinkNodes(ls)
          /\ routers' = SeedRouters(LinkNodes(ls), ls)
    /\ pc' = "bf"
    /\ UNCHANGED <<lsrLocals, messages, nchg, change, file, bfLocals, sendLocals>>

\* Faulty variant: the node set is rebuilt from the links that remain
applyChangeLinkNodes(recs, maxChanges, maxLinks) ==
    /\ pc = "chg"
    /\ nchg < maxChanges
    /\ \E rec \in recs :
          /\ (rec.pathCost # REMOVE) => (Len(links) < maxLinks)
          /\ LET ls == IF rec.pathCost = REMOVE
                       THEN removeLink(links, rec)
                       ELSE Append(links, Link(rec.node1, rec.node2, rec.pathCost))
                 ns == LinkNodes(ls)
             IN /\ change' = rec
                /\ nodes' = ns
                /\ links' = ls
                /\ routers' = SeedRouters(ns, ls)
    /\ nchg' = nchg + 1
    /\ pc' = "bf"
    /\ UNCHANGED <<lsrLocals, messages, file, bfLocals, sendLocals>>

\* Faulty variant: the routers are kept and patched: entries for new ids are added,
\* then the surviving links are seeded over the old tables
applyChangePatch(recs, maxChanges, maxLinks) ==
    /\ pc = "chg"
    /\ nchg < maxChanges
    /\ \E rec \in recs :
          /\ (rec.pathCost # REMOVE) => (Len(links) < maxLinks)
          /\ LET ns == nodes \cup {rec.node1, rec.node2}
                 ls == IF rec.pathCost = REMOVE
                       THEN removeLink(links, rec)
                       ELSE Append(links, Link(rec.node1, rec.node2, rec.pathCost))
                 kept == [id \in ns |->
                            [d \in ns |->
                                IF id \in DOMAIN routers /\ d \in DOMAIN routers[id]
                                THEN routers[id][d]
                                ELSE NewRoutingTable(id, ns)[d]]]
             IN /\ change' = rec
                /\ nodes' = ns
                /\ links' = ls
                /\ routers' = SeedLinks(kept, ls, 1)
    /\ nchg' = nchg + 1
    /\ pc' = "bf"
    /\ UNCHANGED <<lsrLocals, messages, file, bfLocals, sendLocals>>

\* applyChange: extend the node set, edit the link list, rebuild and reseed
applyChange(recs, maxChanges, maxLinks) ==
    /\ pc = "chg"
    /\ nchg < maxChanges
    /\ \E rec \in recs :
          /\ (rec.pathCost # REMOVE) => (Len(links) < maxLinks)
          /\ LET ns == nodes \cup {rec.node1, rec.node2}
                 ls == IF rec.pathCost = REMOVE
                       THEN removeLink(links, rec)
                       ELSE Append(links, Link(rec.node1, rec.node2, rec.pathCost))
             IN /\ change' = rec
                /\ nodes' = ns
                /\ links' = ls
                /\ routers' = SeedRouters(ns, ls)
    /\ nchg' = nchg + 1
    /\ pc' = "bf"
    /\ UNCHANGED <<lsrLocals, messages, file, bfLocals, sendLocals>>

\* End of the changes file: dvr returns
finish ==
    /\ pc = "chg"
    /\ pc' = "done"
    /\ UNCHANGED <<lsrLocals, links, nodes, routers, messages, nchg, change, file, bfLocals, sendLocals>>

\* ------------------------------------------------------------------------
\* doBellmanFordAlg

\* bool updated = true
bfBegin ==
    /\ pc = "bf"
    /\ updated' = TRUE
    /\ pc' = "sweep"
    /\ UNCHANGED <<lsrLocals, links, nodes, routers, messages, nchg, change, file, rid, did, lidx,
                   curPathCost, newNextHop, sendLocals>>

\* while (updated) { updated = false; ... }: enter the loops at their first
\* (router, destination, link); with no link the loop body is never reached
bfSweep ==
    /\ pc = "sweep"
    /\ updated
    /\ updated' = FALSE
    /\ IF DOMAIN routers # {} /\ nodes # {} /\ Len(links) > 0
       THEN /\ rid' = SetMin(DOMAIN routers)
            /\ did' = SetMin(nodes)
            /\ lidx' = 1
            /\ curPathCost' = getPathCost(routers[SetMin(DOMAIN routers)], SetMin(nodes))
            /\ newNextHop' = -1
            /\ pc' = "relax"
       ELSE /\ UNCHANGED <<rid, did, lidx, curPathCost, newNextHop>>
            /\ pc' = "sweep"
    /\ UNCHANGED <<lsrLocals, links, nodes, routers, messages, nchg, change, file, sendLocals>>

\* Faulty variant: the function returns whatever the value of updated
bfExitAnytime ==
    /\ pc = "sweep"
    /\ pc' = "write"
    /\ UNCHANGED <<lsrLocals, links, nodes, routers, messages, nchg, change, file, bfLocals, sendLocals>>

\* while (updated) fails: the function returns
bfExit ==
    /\ pc = "sweep"
    /\ ~updated
    /\ pc' = "write"
    /\ UNCHANGED <<lsrLocals, links, nodes, routers, messages, nchg, change, file, bfLocals, sendLocals>>

\* The neighbour of router r on a link, -1 when the link does not touch r
neighbourOf(link, r) ==
    IF link.node1 = r THEN link.node2
    ELSE IF link.node2 = r THEN link.node1 ELSE -1

\* Faulty variant: every link is skipped
skipsLinkAlways(rs, r, d, n) == TRUE

\* Faulty variant: the split-horizon test left out
skipsLinkNoSplitHorizon(rs, r, d, n) == n = -1 \/ n = d

\* The two 'continue' tests of the inner loop
skipsLink(rs, r, d, n) ==
    IF n = -1 \/ n = d THEN TRUE
    ELSE getNextHop(rs[n], d) = r

\* Faulty variant: the cost of the hop to the neighbour left out of the sum
candidateCostNoHop(rs, r, d, n) == getPathCost(rs[n], d)

\* Faulty variant: a candidate of equal cost is adopted too
adoptsOrEqual(cand, cur, n, nnh) == cand <= cur

\* The candidate cost and the test that adopts it
candidateCost(rs, r, d, n) == getPathCost(rs[r], n) + getPathCost(rs[n], d)

adopts(cand, cur, n, nnh) ==
    IF cand < cur THEN TRUE ELSE (cand = cur /\ n < nnh)

\* One iteration of the innermost loop, then the loop headers that follow it
bfRelax ==
    /\ pc = "relax"
    /\ curPathCost + CostFloor >= 0
    /\ LET link == links[lidx]
           n == neighbourOf(link, rid)
           missing == n # -1 /\ n # did /\ ~HasRouter(routers, n)
           take == IF missing THEN FALSE
                   ELSE IF skipsLink(routers, rid, did, n) THEN FALSE
                   ELSE adopts(candidateCost(routers, rid, did, n), curPathCost, n, newNextHop)
           cand == candidateCost(routers, rid, did, n)
           rs == IF take THEN [routers EXCEPT ![rid] = addRoute(@, did, n, cand)]
                 ELSE routers
           cur == IF take THEN cand ELSE curPathCost
           nnh == IF take THEN n ELSE newNextHop
       IN IF missing
          THEN /\ pc' = "fatal"
               /\ UNCHANGED <<routers, bfLocals>>
          ELSE /\ routers' = rs
               /\ updated' = IF take THEN TRUE ELSE updated
               /\ IF lidx < Len(links)
                  THEN /\ lidx' = lidx + 1
                       /\ curPathCost' = cur
                       /\ newNextHop' = nnh
                       /\ UNCHANGED <<rid, did, pc>>
                  ELSE IF Above(nodes, did) # {}
                  THEN /\ did' = SetMin(Above(nodes, did))
                       /\ lidx' = 1
                       /\ curPathCost' = getPathCost(rs[rid], SetMin(Above(nodes, did)))
                       /\ newNextHop' = -1
                       /\ UNCHANGED <<rid, pc>>
                  ELSE IF Above(DOMAIN routers, rid) # {}
                  THEN /\ rid' = SetMin(Above(DOMAIN routers, rid))
                       /\ did' = SetMin(nodes)
                       /\ lidx' = 1
                       /\ curPathCost' = getPathCost(rs[SetMin(Above(DOMAIN routers, rid))], SetMin(nodes))
                       /\ newNextHop' = -1
                       /\ UNCHANGED pc
                  ELSE /\ pc' = "sweep"
                       /\ curPathCost' = cur
                       /\ newNextHop' = nnh
                       /\ UNCHANGED <<rid, did, lidx>>
    /\ UNCHANGED <<lsrLocals, links, nodes, messages, nchg, change, file, sendLocals>>

\* doBellmanFordAlg as one function of its arguments: the loop over the
\* links for one (router, destination), the loops over destinations and
\* routers, and the while loop over sweeps
RECURSIVE linkLoop(_, _, _, _, _, _, _, _)
linkLoop(rs, ls, r, d, i, cur, nnh, upd) ==
    IF i > Len(ls) THEN [rs |-> rs, upd |-> upd]
    ELSE LET n == neighbourOf(ls[i], r)
             take == IF skipsLink(rs, r, d, n) THEN FALSE
                     ELSE adopts(candidateCost(rs, r, d, n), cur, n, nnh)
             cand == candidateCost(rs, r, d, n)
         IN IF take
            THEN linkLoop([rs EXCEPT ![r] = addRoute(@, d, n, cand)], ls, r, d, i + 1, cand, n, TRUE)
            ELSE linkLoop(rs, ls, r, d, i + 1, cur, nnh, upd)

RECURSIVE destLoop(_, _, _, _, _, _)
destLoop(rs, ids, ls, r, rest, upd) ==
    IF rest = {} THEN [rs |-> rs, upd |-> upd]
    ELSE LET d == SetMin(rest)
             res == linkLoop(rs, ls, r, d, 1, getPathCost(rs[r], d), -1, upd)
         IN destLoop(res.rs, ids, ls, r, rest \ {d}, res.upd)

RECURSIVE routerLoop(_, _, _, _, _)
routerLoop(rs, ids, ls, rest, upd) ==
    IF rest = {} THEN [rs |-> rs, upd |-> upd]
    ELSE LET r == SetMin(rest)
             res == destLoop(rs, ids, ls, r, ids, upd)
         IN routerLoop(res.rs, ids, ls, rest \ {r}, res.upd)

RECURSIVE doBellmanFordAlg(_, _, _, _)
doBellmanFordAlg(rs, ids, ls, sweeps) ==
    LET res == routerLoop(rs, ids, ls, DOMAIN rs, FALSE)
    IN IF res.upd /\ sweeps > 1
       THEN doBellmanFordAlg(res.rs, ids, ls, sweeps - 1)
       ELSE res.rs

\* The tables of routers built from scratch for a node set and a link list
\* (at most SweepCap sweeps are followed)
SweepCap == (MaxNode + 2) * (MaxNode + 2)
FromScratch(ids, ls) == doBellmanFordAlg(SeedRouters(ids, ls), ids, ls, SweepCap)

\* ------------------------------------------------------------------------
\* The blocks of the output file: writeFT appends and closes one table
\* block; the lines sendMessages puts into outFile reach the file when the
\* stream is closed, as one message block
TableBlock(n) == [kind |-> "table", changes |-> n, lines |-> 0]
MessageBlock(n, ls) == [kind |-> "message", changes |-> n, lines |-> Len(ls)]

\* Faulty variant: the table block is written twice
writeFTTwice ==
    /\ pc = "write"
    /\ file' = file \o <<TableBlock(nchg), TableBlock(nchg)>>
    /\ IF nchg = 0
       THEN /\ pc' = "readmsg"
            /\ UNCHANGED <<midx, out>>
       ELSE /\ pc' = "send"
            /\ midx' = 1
            /\ out' = <<>>
    /\ UNCHANGED <<lsrLocals, links, nodes, routers, messages, nchg, change, bfLocals, pathCost,
                   currentID, hops>>

\* writeFT appends the tables; the first round then reads the message file
writeFT ==
    /\ pc = "write"
    /\ file' = Append(file, TableBlock(nchg))
    /\ IF nchg = 0
       THEN /\ pc' = "readmsg"
            /\ UNCHANGED <<midx, out>>
       ELSE /\ pc' = "send"
            /\ midx' = 1
            /\ out' = <<>>
    /\ UNCHANGED <<lsrLocals, links, nodes, routers, messages, nchg, change, bfLocals, pathCost,
                   currentID, hops>>

readMessagesFile(files) ==
    /\ pc = "readmsg"
    /\ messages' \in files
    /\ pc' = "send"
    /\ midx' = 1
    /\ out' = <<>>
    /\ UNCHANGED <<lsrLocals, links, nodes, routers, nchg, change, file, bfLocals, pathCost, currentID, hops>>

\* A line of the message block
Unreachable(m) ==
    [sourceID |-> m.sourceID, destinationID |-> m.destinationID,
     unreachable |-> TRUE, cost |-> INFCOST, hops |-> <<>>]

\* Faulty variant: the destination is put into the hop list too
DeliveredWithDest(m, c, hs) ==
    [sourceID |-> m.sourceID, destinationID |-> m.destinationID,
     unreachable |-> FALSE, cost |-> c, hops |-> Append(hs, m.destinationID)]

Delivered(m, c, hs) ==
    [sourceID |-> m.sourceID, destinationID |-> m.destinationID,
     unreachable |-> FALSE, cost |-> c, hops |-> hs]

\* The exception of getRouterByID leaves sendMessages with outFile open and
\* nothing catches it: whether the stack is unwound, and the lines held by
\* the stream reach the file, is left to the implementation
Thrown(f, n, ls) == {f, Append(f, MessageBlock(n, ls))}

\* Faulty variant: an unknown source gets a default table and the message is
\* reported unreachable
sendMessageDefaultRouter ==
    /\ pc = "send"
    /\ midx <= Len(messages)
    /\ LET m == messages[midx]
       IN IF ~HasRouter(routers, m.sourceID)
          THEN /\ out' = Append(out, Unreachable(m))
               /\ midx' = midx + 1
               /\ UNCHANGED <<pc, file, pathCost, currentID, hops>>
          ELSE LET c == getPathCost(routers[m.sourceID], m.destinationID)
               IN /\ pathCost' = c
                  /\ UNCHANGED file
                  /\ IF c = INFCOST
                     THEN /\ out' = Append(out, Unreachable(m))
                          /\ midx' = midx + 1
                          /\ UNCHANGED <<pc, currentID, hops>>
                     ELSE /\ currentID' = m.sourceID
                          /\ hops' = <<>>
                          /\ pc' = "walk"
                          /\ UNCHANGED <<midx, out>>
    /\ UNCHANGED <<lsrLocals, links, nodes, routers, messages, nchg, change, bfLocals>>

\* sendMessages, head of the loop body: look the cost up, report an
\* unreachable destination at once, otherwise start the next-hop walk
sendMessage ==
    /\ pc = "send"
    /\ midx <= Len(messages)
    /\ LET m == messages[midx]
       IN IF ~HasRouter(routers, m.sourceID)
          THEN /\ pc' = "fatal"
               /\ file' \in Thrown(file, nchg, out)
               /\ UNCHANGED sendLocals
          ELSE LET c == getPathCost(routers[m.sourceID], m.destinationID)
               IN /\ pathCost' = c
                  /\ UNCHANGED file
                  /\ IF c = INFCOST
                     THEN /\ out' = Append(out, Unreachable(m))
                          /\ midx' = midx + 1
                          /\ UNCHANGED <<pc, currentID, hops>>
                     ELSE /\ currentID' = m.sourceID
                          /\ hops' = <<>>
                          /\ pc' = "walk"
                          /\ UNCHANGED <<midx, out>>
    /\ UNCHANGED <<lsrLocals, links, nodes, routers, messages, nchg, change, bfLocals>>

\* Faulty variant: every step of the walk records the hop in the table of
\* the router it leaves
walkStepLearns ==
    /\ pc = "walk"
    /\ Len(hops) <= MaxNode + 1
    /\ LET m == messages[midx]
       IN IF currentID # m.destinationID
          THEN IF HasRouter(routers, currentID)
               THEN /\ hops' = Append(hops, currentID)
                    /\ currentID' = getNextHop(routers[currentID], m.destinationID)
                    /\ routers' = [routers EXCEPT ![currentID] =
                                     addRoute(@, m.sourceID, m.sourceID, pathCost)]
                    /\ UNCHANGED <<pc, midx, pathCost, out, file>>
               ELSE /\ pc' = "fatal"
                    /\ hops' = Append(hops, currentID)
                    /\ file' \in Thrown(file, nchg, out)
                    /\ UNCHANGED <<midx, pathCost, currentID, out, routers>>
          ELSE /\ out' = Append(out, Delivered(m, pathCost, hops))
               /\ midx' = midx + 1
               /\ pc' = "send"
               /\ UNCHANGED <<pathCost, currentID, hops, file, routers>>
    /\ UNCHANGED <<lsrLocals, links, nodes, messages, nchg, change, bfLocals>>

\* sendMessages, the while loop of the walk: one test of its condition
walkStep ==
    /\ pc = "walk"
    /\ Len(hops) <= MaxNode + 1
    /\ LET m == messages[midx]
       IN IF currentID # m.destinationID
          THEN IF HasRouter(routers, currentID)
               THEN /\ hops' = Append(hops, currentID)
                    /\ currentID' = getNextHop(routers[currentID], m.destinationID)
                    /\ UNCHANGED <<pc, midx, pathCost, out, file>>
               ELSE /\ pc' = "fatal"
                    /\ hops' = Append(hops, currentID)
                    /\ file' \in Thrown(file, nchg, out)
                    /\ UNCHANGED <<midx, pathCost, currentID, out>>
          ELSE /\ out' = Append(out, Delivered(m, pathCost, hops))
               /\ midx' = midx + 1
               /\ pc' = "send"
               /\ UNCHANGED <<pathCost, currentID, hops, file>>
    /\ UNCHANGED <<lsrLocals, links, nodes, routers, messages, nchg, change, bfLocals>>

\* sendMessages returns (outFile.close()); dvr goes on to the next change
sendDone ==
    /\ pc = "send"
    /\ midx > Len(messages)
    /\ file' = Append(file, MessageBlock(nchg, out))
    /\ pc' = "chg"
    /\ UNCHANGED <<lsrLocals, links, nodes, routers, messages, nchg, change, bfLocals, sendLocals>>

\* ------------------------------------------------------------------------
Next ==
    \/ initTopology(TopoFiles)
    \/ bfBegin
    \/ bfSweep
    \/ bfRelax
    \/ bfExit
    \/ writeFT
    \/ readMessagesFile(MsgFiles(nodes))
    \/ sendMessage
    \/ walkStep
    \/ sendDone
    \/ applyChange(ChangeRecs, MaxChanges, MaxLinks)
    \/ finish

Spec == Init /\ [][Next]_vars

\* ------------------------------------------------------------------------
\* Second input family: non-negative costs that may exceed the 9999 sentinel
LargeCosts == {1, 20000}
LargeLinkRecs == {Link(a, b, c) : <<a, b>> \in {p \in NodeIds \X NodeIds : p[1] < p[2]}, c \in LargeCosts}
LargeTopoFiles == SeqsUpTo(LargeLinkRecs, MaxLinks - 1)
LargeChangeRecs == LargeLinkRecs \cup Removals

NextLarge ==
    \/ initTopology(LargeTopoFiles)
    \/ bfBegin
    \/ bfSweep
    \/ bfRelax
    \/ bfExit
    \/ writeFT
    \/ readMessagesFile(MsgFiles(nodes))
    \/ sendMessage
    \/ walkStep
    \/ sendDone
    \/ applyChange(LargeChangeRecs, MaxChanges, MaxLinks - 1)
    \/ finish

SpecLarge == Init /\ [][NextLarge]_vars

\* Change records with any integer cost: a topology of unit costs, then up to
\* MaxChanges + 1 changes whose cost may be negative
UnitLinkRecs == {Link(p[1], p[2], 1) : p \in {q \in NodeIds \X NodeIds : q[1] < q[2]}}
UnitTopoFiles == SeqsUpTo(UnitLinkRecs, MaxLinks - 1)
AnyChangeRecs ==
    {Link(a, b, c) : <<a, b>> \in {p \in NodeIds \X NodeIds : p[1] < p[2]}, c \in {-2, -1, 1}}
    \cup Removals

NextAny ==
    \/ initTopology(UnitTopoFiles)
    \/ bfBegin
    \/ bfSweep
    \/ bfRelax
    \/ bfExit
    \/ writeFT
    \/ readMessagesFile(MsgFiles(nodes))
    \/ sendMessage
    \/ walkStep
    \/ sendDone
    \/ applyChange(AnyChangeRecs, MaxChanges + 1, MaxLinks)
    \/ finish

SpecAny == Init /\ [][NextAny]_vars

\* Third input family: one more node and one more link than the first, each
\* pair of nodes linked at most once, costs 1 and 5, removals only
WideIds == 1..(MaxNode + 1)
WidePairs == {p \in WideIds \X WideIds : p[1] < p[2]}
WideLinkRecs == {Link(p[1], p[2], c) : p \in WidePairs, c \in {1, 5}}
PairBefore(l, m) == l.node1 < m.node1 \/ (l.node1 = m.node1 /\ l.node2 < m.node2)
WideTopoFiles ==
    {f \in [1..(MaxLinks + 1) -> WideLinkRecs] :
        \A i \in 1..MaxLinks : PairBefore(f[i], f[i + 1])}
WideChangeRecs == {Link(1, 2, REMOVE), Link(2, 1, REMOVE)}

NextWide ==
    \/ initTopology(WideTopoFiles)
    \/ bfBegin
    \/ bfSweep
    \/ bfRelax
    \/ bfExit
    \/ writeFT
    \/ readMessagesFile(MsgFiles(nodes))
    \/ sendMessage
    \/ walkStep
    \/ sendDone
    \/ applyChange(WideChangeRecs, MaxChanges, MaxLinks + 1)
    \/ finish

SpecWide == Init /\ [][NextWide]_vars

\* doBellmanFordAlg and sendMessages are loops of one sequential program:
\* whenever a step is possible the program takes it
SpecFair == Spec /\ WF_vars(Next)

\* ------------------------------------------------------------------------
\* Fifth input family: a message file of at most MaxMsgs lines whose ids
\* are any ids, known to the topology or not; unit-cost links
StrayMsgFiles == SeqsUpTo({Message(s, d) : s \in NodeIds, d \in NodeIds}, MaxMsgs)
StrayChangeRecs == UnitLinkRecs \cup Removals

NextStray ==
    \/ initTopology(UnitTopoFiles)
    \/ bfBegin
    \/ bfSweep
    \/ bfRelax
    \/ bfExit
    \/ writeFT
    \/ readMessagesFile(StrayMsgFiles)
    \/ sendMessage
    \/ walkStep
    \/ sendDone
    \/ applyChange(StrayChangeRecs, MaxChanges, MaxLinks)
    \/ finish

SpecStray == Init /\ [][NextStray]_vars

\* The same program under the scheduling of SpecFair
SpecStrayFair == SpecStray /\ WF_vars(NextStray)

\* ------------------------------------------------------------------------
\* Sixth input family: the example topology {(1,2,1),(2,3,1),(1,3,5)} with
\* its three lines in any order, the message file '1 3 hello', and removals
ExampleLinks == {Link(1, 2, 1), Link(2, 3, 1), Link(1, 3, 5)}
ExampleTopoFiles ==
    {f \in [1..3 -> ExampleLinks] : \A i \in 1..3 : \A j \in 1..3 : i # j => f[i] # f[j]}
ExampleMsgFiles == {<<Message(1, 3)>>}

NextExample ==
    \/ initTopology(ExampleTopoFiles)
    \/ bfBegin
    \/ bfSweep
    \/ bfRelax
    \/ bfExit
    \/ writeFT
    \/ readMessagesFile(ExampleMsgFiles)
    \/ sendMessage
    \/ walkStep
    \/ sendDone
    \/ applyChange(Removals, MaxChanges, MaxLinks)
    \/ finish

SpecExample == Init /\ [][NextExample]_vars

\* ------------------------------------------------------------------------
\* Seventh input family: one more node than the first, MaxLinks + 1
\* unit-cost links on distinct pairs of nodes, the lines of the topology
\* file in any order; removals only
ShuffledLinkRecs == {Link(p[1], p[2], 1) : p \in WidePairs}
ShuffledTopoFiles ==
    {f \in [1..(MaxLinks + 1) -> ShuffledLinkRecs] :
        \A i \in 1..(MaxLinks + 1) : \A j \in 1..(MaxLinks + 1) : i # j => f[i] # f[j]}

NextShuffled ==
    \/ initTopology(ShuffledTopoFiles)
    \/ bfBegin
    \/ bfSweep
    \/ bfRelax
    \/ bfExit
    \/ writeFT
    \/ readMessagesFile(MsgFiles(nodes))
    \/ sendMessage
    \/ walkStep
    \/ sendDone
    \/ applyChange(WideChangeRecs, MaxChanges, MaxLinks + 1)
    \/ finish

SpecShuffled == Init /\ [][NextShuffled]_vars

\* ------------------------------------------------------------------------
\* Eighth input family: as the third, with costs 1 and 2, so that a path of
\* two links can cost as much as one link
TieLinkRecs == {Link(p[1], p[2], c) : p \in WidePairs, c \in {1, 2}}
TieTopoFiles ==
    {f \in [1..(MaxLinks + 1) -> TieLinkRecs] :
        \A i \in 1..MaxLinks : PairBefore(f[i], f[i + 1])}

NextTie ==
    \/ initTopology(TieTopoFiles)
    \/ bfBegin
    \/ bfSweep
    \/ bfRelax
    \/ bfExit
    \/ writeFT
    \/ readMessagesFile(MsgFiles(nodes))
    \/ sendMessage
    \/ walkStep
    \/ sendDone
    \/ applyChange(WideChangeRecs, MaxChanges, MaxLinks + 1)
    \/ finish

SpecTie == Init /\ [][NextTie]_vars

\* ------------------------------------------------------------------------
\* lsr.cpp, the link-state program.  It shares no code with
\* distancevector.cpp.  Its vector topology is kept in links (its Link names
\* the third field cost), its vector messages in messages, the index i of
\* its change loop in nchg, the change of the running iteration in change
\* and its output stream in file.

LsrMessage(s, d) == [source |-> s, destination |-> d]

\* std::map: the value under k, or the value-initialised v0 that operator[]
\* inserts when k is absent; assignment through operator[]
At(m, k, v0) == IF k \in DOMAIN m THEN m[k] ELSE v0
Put(m, k, v) == [x \in DOMAIN m \cup {k} |-> IF x = k THEN v ELSE m[x]]
Put2(m, a, b, v) == Put(m, a, Put(At(m, a, <<>>), b, v))

\* lsdb[a][b] = lsdb[b][a] = c
SetLink(db, a, b, c) == Put2(Put2(db, a, b, c), b, a, c)

\* Faulty variant: only the direction of the topology line is stored
RECURSIVE BuildLsdbOneWay(_, _, _)
BuildLsdbOneWay(db, ls, i) ==
    IF i > Len(ls) THEN db
    ELSE BuildLsdbOneWay(Put2(db, ls[i].node1, ls[i].node2, ls[i].pathCost), ls, i + 1)

\* The link-state database of a topology vector, later lines overwriting
RECURSIVE BuildLsdb(_, _, _)
BuildLsdb(db, ls, i) ==
    IF i > Len(ls) THEN db
    ELSE BuildLsdb(SetLink(db, ls[i].node1, ls[i].node2, ls[i].pathCost), ls, i + 1)

\* The tables before Dijkstra: each node's entry for itself and one entry
\* per neighbour (a neighbour entry overwrites the self entry)
SeedTables(db) ==
    [node \in DOMAIN db |->
        [d \in DOMAIN db[node] \cup {node} |->
            IF d \in DOMAIN db[node] THEN <<d, db[node][d]>> ELSE <<node, 0>>]]

\* The loop over the neighbours of minNode.  st holds the maps distance and
\* visited and the tables; a node absent from distance reads as 0 and one
\* absent from visited as false.  shadowed tells the copy of the loop in the
\* change iteration, which stores under routingTables[node][node], from the
\* initial one, which stores under routingTables[source][node].
RECURSIVE relaxNeighbours(_, _, _, _, _, _, _)
relaxNeighbours(db, source, minNode, minDistance, todo, st, shadowed) ==
    IF todo = {} THEN st
    ELSE LET node == SetMin(todo)
             cost == db[minNode][node]
             row == IF shadowed THEN node ELSE source
         IN IF ~At(st.visited, node, FALSE) /\ minDistance + cost < At(st.distance, node, 0)
            THEN relaxNeighbours(db, source, minNode, minDistance, todo \ {node},
                     [distance |-> Put(st.distance, node, minDistance + cost),
                      visited |-> st.visited,
                      rt |-> Put2(st.rt, row, node, <<minNode, minDistance + cost>>)],
                     shadowed)
            ELSE relaxNeighbours(db, source, minNode, minDistance, todo \ {node}, st, shadowed)

\* The loop "for i < lsdb.size()": minNode is taken among the neighbours of
\* the source only (entry.second), the first of least distance not visited
RECURSIVE dijkstraLoop(_, _, _, _, _)
dijkstraLoop(db, source, i, st, shadowed) ==
    LET cand == {n \in DOMAIN db[source] : ~At(st.visited, n, FALSE)}
        minDistance == SetMin({st.distance[n] : n \in cand})
        minNode == SetMin({n \in cand : st.distance[n] = minDistance})
    IN IF i = 0 \/ cand = {} THEN st
       ELSE dijkstraLoop(db, source, i - 1,
                relaxNeighbours(db, source, minNode, minDistance, DOMAIN db[minNode],
                    [st EXCEPT !.visited = Put(@, minNode, TRUE)], shadowed),
                shadowed)

\* One source: distance and visited start from the source's neighbours
dijkstraFrom(db, source, rt, shadowed) ==
    dijkstraLoop(db, source, Cardinality(DOMAIN db),
        [distance |-> Put([n \in DOMAIN db[source] |-> db[source][n]], source, 0),
         visited |-> Put([n \in DOMAIN db[source] |-> FALSE], source, TRUE),
         rt |-> rt],
        shadowed).rt

\* Every source of the database, ascending
RECURSIVE dijkstraAll(_, _, _, _)
dijkstraAll(db, todo, rt, shadowed) ==
    IF todo = {} THEN rt
    ELSE dijkstraAll(db, todo \ {SetMin(todo)}, dijkstraFrom(db, SetMin(todo), rt, shadowed), shadowed)

\* routingTables[s][d] read through operator[], which inserts (0, 0)
Touch(rt, s, d) == IF s \in DOMAIN rt /\ d \in DOMAIN rt[s] THEN rt ELSE Put2(rt, s, d, <<0, 0>>)

\* The hop loop of one message: follows the first fields of the source's row
\* until an entry names its own key.  steps bounds the unrolling.
RECURSIVE hopLoop(_, _, _, _)
hopLoop(rt, source, dest, steps) ==
    LET rt1 == Touch(rt, source, dest)
        first == rt1[source][dest][1]
    IN IF dest = first THEN [rt |-> rt1, hung |-> FALSE]
       ELSE IF steps = 0 THEN [rt |-> rt1, hung |-> TRUE]
       ELSE hopLoop(rt1, source, first, steps - 1)

\* The message loop: totalCost is read first, then the hops are followed
RECURSIVE messageLoop(_, _, _)
messageLoop(rt, ms, i) ==
    IF i > Len(ms) THEN [rt |-> rt, hung |-> FALSE]
    ELSE LET r == hopLoop(Touch(rt, ms[i].source, ms[i].destination),
                          ms[i].source, ms[i].destination, MaxNode + 2)
         IN IF r.hung THEN r ELSE messageLoop(r.rt, ms, i + 1)

\* Input files of lsr: costs 1 and 3, messages between any two ids
LsrLinkRecs == {Link(p[1], p[2], c) : p \in {q \in NodeIds \X NodeIds : q[1] < q[2]}, c \in {1, 3}}
LsrTopoFiles == SeqsUpTo(LsrLinkRecs, MaxLinks)
LsrMsgFiles == SeqsUpTo({LsrMessage(s, d) : s \in NodeIds, d \in NodeIds}, MaxMsgs - 1)
LsrChangeFiles ==
    SeqsUpTo(LsrLinkRecs \cup {Link(p[1], p[2], REMOVE) : p \in {q \in NodeIds \X NodeIds : q[1] < q[2]}},
             MaxChanges)

\* lsr, lines 84-163: parse the three files, build lsdb, seed the tables and
\* run Dijkstra from every node
lsrCompute(tfiles, mfiles, cfiles) ==
    /\ pc = "start"
    /\ \E t \in tfiles : \E m \in mfiles : \E c \in cfiles :
          /\ links' = t
          /\ messages' = m
          /\ changes' = c
          /\ lsdb' = BuildLsdb(<<>>, t, 1)
          /\ routingTables' = dijkstraAll(BuildLsdb(<<>>, t, 1), DOMAIN BuildLsdb(<<>>, t, 1),
                                          SeedTables(BuildLsdb(<<>>, t, 1)), FALSE)
    /\ pc' = "lsrwrite"
    /\ UNCHANGED <<nodes, routers, nchg, change, file, bfLocals, sendLocals>>

\* lsr, lines 166-193 and 246-273: write every table, then one line per
\* message; resolving a message inserts the entries it reads and misses
lsrWrite ==
    /\ pc = "lsrwrite"
    /\ routingTables' = messageLoop(routingTables, messages, 1).rt
    /\ IF messageLoop(routingTables, messages, 1).hung
       THEN pc' = "hang" /\ UNCHANGED file
       ELSE /\ pc' = "lsrchg"
            /\ file' = Append(Append(file, TableBlock(nchg)), MessageBlock(nchg, messages))
    /\ UNCHANGED <<links, nodes, routers, messages, nchg, change, lsdb, changes, bfLocals, sendLocals>>

\* lsr, lines 199-244: the next change record is stored into lsdb in both
\* directions, whatever its cost, and the Dijkstra loops run again on the
\* tables as they are
lsrChange ==
    /\ pc = "lsrchg"
    /\ nchg < Len(changes)
    /\ change' = changes[nchg + 1]
    /\ lsdb' = SetLink(lsdb, change'.node1, change'.node2, change'.pathCost)
    /\ routingTables' = dijkstraAll(lsdb', DOMAIN lsdb', routingTables, TRUE)
    /\ nchg' = nchg + 1
    /\ pc' = "lsrwrite"
    /\ UNCHANGED <<links, nodes, routers, messages, file, changes, bfLocals, sendLocals>>

\* lsr, line 278: the change loop is over, the stream is closed
lsrClose ==
    /\ pc = "lsrchg"
    /\ nchg = Len(changes)
    /\ pc' = "done"
    /\ UNCHANGED <<links, nodes, routers, messages, nchg, change, file, lsrLocals, bfLocals, sendLocals>>

NextLsr ==
    \/ lsrCompute(LsrTopoFiles, LsrMsgFiles, LsrChangeFiles)
    \/ lsrWrite
    \/ lsrChange
    \/ lsrClose

SpecLsr == Init /\ [][NextLsr]_vars

\* ------------------------------------------------------------------------
\* The topology the link list describes: the cost of a pair of nodes is the
\* cost of the last link of the list that joins them
Joining(ls, a, b) ==
    {i \in 1..Len(ls) : (ls[i].node1 = a /\ ls[i].node2 = b) \/ (ls[i].node1 = b /\ ls[i].node2 = a)}

SetMax(S) == CHOOSE x \in S : \A y \in S : y <= x

Linked(ls, a, b) == Joining(ls, a, b) # {}

LinkCost(ls, a, b) == ls[SetMax(Joining(ls, a, b))].pathCost

\* The costs of the walks of at most k links from r to d
RECURSIVE WalkCosts(_, _, _, _, _)
WalkCosts(ls, ids, r, d, k) ==
    IF k = 0 THEN (IF r = d THEN {0} ELSE {})
    ELSE WalkCosts(ls, ids, r, d, k - 1) \cup
         UNION {{LinkCost(ls, r, n) + c : c \in WalkCosts(ls, ids, n, d, k - 1)} :
                n \in {m \in ids : m # r /\ Linked(ls, r, m)}}

PathCosts(r, d) == WalkCosts(links, nodes, r, d, Cardinality(nodes) - 1)
Connected(r, d) == PathCosts(r, d) # {}
Cheapest(r, d) == SetMin(PathCosts(r, d))

NonNegativeCosts == \A i \in 1..Len(links) : links[i].pathCost >= 0
PathSumsSmall == \A r \in nodes : \A d \in nodes : \A c \in PathCosts(r, d) : c < INFCOST

\* doBellmanFordAlg has returned and the next change is not yet applied
Converged == pc \in {"write", "readmsg", "send", "walk", "chg", "done"}

\* C1: after doBellmanFordAlg, on a topology with non-negative link costs
\* and all path sums below 9999, every router's stored cost to every
\* destination connected to it is the cost of the cheapest path to it
C1_ShortestCost ==
    (Converged /\ NonNegativeCosts /\ PathSumsSmall) =>
        \A r \in nodes : \A d \in nodes :
            Connected(r, d) => getPathCost(routers[r], d) = Cheapest(r, d)

\* A converged state after a change in which some router reaches a linked
\* neighbour more cheaply through a third node than over the direct link
C1_Witness ==
    /\ pc = "write"
    /\ nchg = 1
    /\ \E r \in nodes : \E d \in nodes :
          /\ r # d
          /\ Linked(links, r, d)
          /\ getPathCost(routers[r], d) < LinkCost(links, r, d)
          /\ getNextHop(routers[r], d) # d

\* The routers a delivered line names, destination included, and the sum of
\* the costs of the links between consecutive ones
Route(line) == Append(line.hops, line.destinationID)

RouteLinked(ls, path) == \A i \in 1..(Len(path) - 1) : Linked(ls, path[i], path[i + 1])

RECURSIVE RouteSum(_, _, _)
RouteSum(ls, path, i) ==
    IF i >= Len(path) THEN 0
    ELSE LinkCost(ls, path[i], path[i + 1]) + RouteSum(ls, path, i + 1)

\* sendMessages is running on the converged tables or has returned, and the
\* lines of out are those of the current round
Resolving == pc \in {"send", "walk", "chg", "done"}

\* C2: after convergence, for every message resolved with a finite cost, the
\* costs of the links along the next-hop walk of sendMessages add up to the
\* reported path cost
C2_WalkSumIsCost ==
    Resolving =>
        \A i \in 1..Len(out) :
            ~out[i].unreachable =>
                /\ RouteLinked(links, Route(out[i]))
                /\ RouteSum(links, Route(out[i]), 1) = out[i].cost

NoRepeat(seq) == \A i \in 1..Len(seq) : \A j \in 1..Len(seq) : i # j => seq[i] # seq[j]

\* C3: the next-hop walk of a message with a finite cost visits no router
\* twice, stays on routers and takes at most |nodes| - 1 steps to the
\* destination
C3_WalkAcyclic ==
    pc = "walk" =>
        /\ HasRouter(routers, currentID)
        /\ NoRepeat(Append(hops, currentID))
        /\ Len(hops) <= Cardinality(nodes) - 1

\* C8: an entry is (-1, 9999) after convergence exactly when the destination
\* cannot be reached, and an unreachable destination stays at (-1, 9999) in
\* every state of the run
C8_SentinelIffUnreachable ==
    /\ Converged =>
          \A r \in nodes : \A d \in nodes :
              (routers[r][d] = <<NOHOP, INFCOST>>) <=> ~Connected(r, d)
    /\ pc \in {"bf", "sweep", "relax"} =>
          \A r \in nodes : \A d \in nodes :
              ~Connected(r, d) => routers[r][d] = <<NOHOP, INFCOST>>

\* C9: no relaxation step adopts a route through a neighbour whose own cost
\* to the destination is 9999
C9_NoRouteViaUnreachable ==
    [][(pc = "relax" /\ routers' # routers) =>
          getPathCost(routers[neighbourOf(links[lidx], rid)], did) # INFCOST]_vars

C7_NoTwoNodeLoop ==
    \A r \in DOMAIN routers : \A n \in DOMAIN routers : \A d \in nodes :
        r # n => ~(getNextHop(routers[r], d) = n /\ getNextHop(routers[n], d) = r)

\* A relaxation step that the split-horizon test has just skipped: the
\* neighbour's own route to the destination leads back through the router
C7_Witness ==
    /\ pc = "relax"
    /\ neighbourOf(links[lidx], rid) \notin {-1, did}
    /\ getNextHop(routers[neighbourOf(links[lidx], rid)], did) = rid
    /\ candidateCost(routers, rid, did, neighbourOf(links[lidx], rid)) < curPathCost

\* A known node that no link of the list touches
Isolated(x) ==
    x \in nodes /\ \A i \in 1..Len(links) : links[i].node1 # x /\ links[i].node2 # x

\* C10: a message is reported unreachable, with no hop list, exactly when
\* the source's converged cost to the destination is 9999; a known node with
\* no links has every other destination at (-1, 9999), and every message to
\* it from another node is reported unreachable and raises no error
C10_UnreachableReport ==
    /\ Resolving =>
          \A i \in 1..Len(out) :
              /\ out[i].unreachable <=>
                    getPathCost(routers[messages[i].sourceID], messages[i].destinationID) = INFCOST
              /\ out[i].unreachable => out[i].hops = <<>>
              /\ (Isolated(messages[i].destinationID)
                    /\ messages[i].sourceID # messages[i].destinationID)
                 => out[i].unreachable
    /\ Converged =>
          \A x \in nodes : Isolated(x) =>
              \A d \in nodes \ {x} : routers[x][d] = <<NOHOP, INFCOST>>
    /\ (pc \in {"walk", "fatal"} /\ midx \in 1..Len(messages)) =>
          ~(Isolated(messages[midx].destinationID)
             /\ messages[midx].sourceID # messages[midx].destinationID)

\* C4: doBellmanFordAlg terminates: once entered, it reaches its return
\* after a sweep in which no entry was updated
C4_Terminates == (pc = "bf") ~> (pc = "write" /\ ~updated)

\* The while test fails after sweeps that did change entries since seeding
C4_Witness ==
    /\ pc = "sweep"
    /\ ~updated
    /\ nchg = 1
    /\ routers # SeedRouters(nodes, links)

\* C5: after applyChange and doBellmanFordAlg every table is the one that
\* routers built from scratch from the current nodes and links converge to
C5_NoStaleMemory ==
    (Converged /\ nchg >= 1) => routers = FromScratch(nodes, links)

\* Tables written after a change in which a destination that the previous
\* round delivered to has become unreachable
C5_Witness ==
    /\ pc = "write"
    /\ nchg = 1
    /\ \E i \in 1..Len(out) :
          /\ ~out[i].unreachable
          /\ routers[out[i].sourceID][out[i].destinationID] = <<NOHOP, INFCOST>>

\* ------------------------------------------------------------------------
\* A step of applyChange; change' is the record it applied
ChangeStep == pc = "chg" /\ pc' = "bf"

\* The link list with the cost of every link joining a and b replaced by c
Recost(ls, a, b, c) ==
    [i \in 1..Len(ls) |->
        IF {ls[i].node1, ls[i].node2} = {a, b}
        THEN Link(ls[i].node1, ls[i].node2, c) ELSE ls[i]]

\* C11: a change (a, b, c), c # -999, on a pair that already has a link:
\* right after the reseeding a and b route to each other directly at cost
\* c, and the tables the next convergence ends in are the same whatever the
\* old cost of the a-b link was, and the same as with the old link gone
C11_UpdateReseeds ==
    [][(ChangeStep /\ change'.pathCost # REMOVE /\
        Linked(links, change'.node1, change'.node2)) =>
       LET a == change'.node1
           b == change'.node2
           c == change'.pathCost
       IN /\ routers'[a][b] = <<b, c>>
          /\ routers'[b][a] = <<a, c>>
          /\ \A c0 \in Costs :
                FromScratch(nodes', Append(Recost(links, a, b, c0), change'))
                    = FromScratch(nodes', links')
          /\ FromScratch(nodes', Append(removeLink(links, change'), change'))
                = FromScratch(nodes', links')]_vars

\* Reseeded after a change whose pair already had a link of another cost,
\* with a third node known
C11_Witness ==
    /\ pc = "bf"
    /\ nchg = 1
    /\ change.pathCost # REMOVE
    /\ Cardinality(nodes) = MaxNode
    /\ \E i \in 1..(Len(links) - 1) :
          /\ {links[i].node1, links[i].node2} = {change.node1, change.node2}
          /\ links[i].pathCost # change.pathCost
    /\ routers[change.node1][change.node2] = <<change.node2, change.pathCost>>

\* At most one link per unordered pair of nodes
OnePerPair(ls) ==
    \A i \in 1..Len(ls) : \A j \in 1..Len(ls) :
        i # j => {ls[i].node1, ls[i].node2} # {ls[j].node1, ls[j].node2}

\* C12: applyChange on a link list with at most one link per pair leaves
\* at most one link per pair
C12_OneLinkPerPair ==
    [][(ChangeStep /\ OnePerPair(links)) => OnePerPair(links')]_vars

\* The links of a list that do not join a and b, in their order
RECURSIVE Others(_, _, _)
Others(ls, a, b) ==
    IF ls = <<>> THEN <<>>
    ELSE IF {Head(ls).node1, Head(ls).node2} = {a, b}
         THEN Others(Tail(ls), a, b)
         ELSE <<Head(ls)>> \o Others(Tail(ls), a, b)

\* C13: a change (a, b, -999) leaves no link joining a and b in either
\* orientation and keeps every other link in its place; once the tables
\* have reconverged, a's route to b is the pair (-1, 9999) or goes through
\* a third node
C13_RemovalFrame ==
    /\ [][(ChangeStep /\ change'.pathCost = REMOVE) =>
            /\ ~Linked(links', change'.node1, change'.node2)
            /\ links' = Others(links, change'.node1, change'.node2)]_vars
    /\ []((Converged /\ nchg >= 1 /\ change.pathCost = REMOVE) =>
            \/ routers[change.node1][change.node2] = <<NOHOP, INFCOST>>
            \/ getNextHop(routers[change.node1], change.node2)
                  \notin {NOHOP, change.node1, change.node2})

\* Tables written after a removal record given in the order opposite to
\* the stored link: before it the message went over the direct link, now
\* the route goes through a third node
C13_Witness ==
    /\ pc = "write"
    /\ nchg = 1
    /\ change.pathCost = REMOVE
    /\ change.node1 > change.node2
    /\ \E i \in 1..Len(out) :
          /\ out[i].sourceID = change.node1
          /\ out[i].destinationID = change.node2
          /\ ~out[i].unreachable
          /\ out[i].hops = <<change.node1>>
    /\ getNextHop(routers[change.node1], change.node2)
          \notin {NOHOP, change.node1, change.node2}

\* C14: a change (a, b, -999) for a pair that has no link, whatever the two
\* ids: the link list and the node set stay as they were, and the tables
\* the reconvergence ends in are the tables of before the change
C14_RemoveAbsentNoOp ==
    [][(ChangeStep /\ change'.pathCost = REMOVE /\
        ~Linked(links, change'.node1, change'.node2)) =>
       /\ links' = links
       /\ nodes' = nodes
       /\ doBellmanFordAlg(routers', nodes', links', SweepCap) = routers]_vars

\* C15: a change (a, b, c), c # -999, naming an id not seen before: the id
\* joins the node set, every known id has a router, every router has an
\* entry for every known id, and in the tables the reconvergence ends in
\* every node connected to the new node has a route to it
C15_NewNodeRoutable ==
    [][(ChangeStep /\ change'.pathCost # REMOVE /\
        ~({change'.node1, change'.node2} \subseteq nodes)) =>
       /\ nodes' = nodes \cup {change'.node1, change'.node2}
       /\ DOMAIN routers' = nodes'
       /\ \A r \in nodes' : DOMAIN routers'[r] = nodes'
       /\ LET rs == doBellmanFordAlg(routers', nodes', links', SweepCap)
          IN \A x \in nodes' \ nodes : \A r \in nodes' :
                Connected(r, x)' =>
                    /\ getPathCost(rs[r], x) # INFCOST
                    /\ getNextHop(rs[r], x) # NOHOP]_vars

\* C16: no step removes an id from the node set, and every known id keeps
\* a router and an entry in every table, also a node left without links
C16_NodesOnlyGrow ==
    /\ [][nodes \subseteq nodes']_vars
    /\ [](pc # "start" =>
            /\ nodes \subseteq DOMAIN routers
            /\ \A r \in DOMAIN routers : nodes \subseteq DOMAIN routers[r])

\* Tables written after the removal of the only link of a node that the
\* previous round delivered to: the node is still known, has its router,
\* and the other end of the removed link holds (-1, 9999) for it
C16_Witness ==
    /\ pc = "write"
    /\ nchg = 1
    /\ change.pathCost = REMOVE
    /\ Isolated(change.node2)
    /\ change.node2 \in nodes
    /\ change.node2 \in DOMAIN routers
    /\ \E i \in 1..Len(out) :
          /\ out[i].sourceID = change.node1
          /\ out[i].destinationID = change.node2
          /\ ~out[i].unreachable
    /\ routers[change.node1][change.node2] = <<NOHOP, INFCOST>>

\* C17: from initTopology on, there is one router per known id and the
\* key set of every routing table is the set of known ids
C17_TableKeys ==
    pc # "start" =>
        /\ DOMAIN routers = nodes
        /\ \A r \in DOMAIN routers : DOMAIN routers[r] = nodes

\* Inside doBellmanFordAlg after a change that brought the node set to its
\* full size (the messages were read when fewer ids were known), with an
\* entry already rewritten by addRoute
C17_Witness ==
    /\ pc = "relax"
    /\ nchg = 1
    /\ change.pathCost # REMOVE
    /\ Cardinality(nodes) = MaxNode
    /\ Len(messages) < MaxNode * MaxNode
    /\ routers # SeedRouters(nodes, links)

\* C18: with non-negative costs in the initial topology, whatever the costs
\* of the change records, every link of the list has a cost >= 0, and none
\* has the cost -999
C18_LiveCostsNonNegative ==
    \A i \in 1..Len(links) :
        links[i].pathCost >= 0 /\ links[i].pathCost # REMOVE

\* C19: doBellmanFordAlg called again on tables it has finished on, with
\* the same nodes and links, changes no entry
C19_Idempotent ==
    Converged => doBellmanFordAlg(routers, nodes, links, SweepCap) = routers

\* Tables written after a change, in which some route goes through a third
\* node: earlier sweeps did rewrite entries
C19_Witness ==
    /\ pc = "write"
    /\ nchg = 1
    /\ Len(links) = MaxLinks
    /\ \E r \in nodes : \E d \in nodes :
          getNextHop(routers[r], d) \notin {NOHOP, r, d}

\* C20: right after the seeding of initTopology or applyChange, before
\* doBellmanFordAlg runs, for every link (a, b, c) of the list a's cost to
\* b and b's cost to a are at most c
C20_SeededWithinLinkCost ==
    pc = "bf" =>
        \A i \in 1..Len(links) :
            /\ getPathCost(routers[links[i].node1], links[i].node2) <= links[i].pathCost
            /\ getPathCost(routers[links[i].node2], links[i].node1) <= links[i].pathCost

\* ------------------------------------------------------------------------
\* The kinds of the blocks of a file with the number of changes applied
\* when each was written, and what a run through k changes must give
Shape(f) == [i \in 1..Len(f) |-> <<f[i].kind, f[i].changes>>]
ExpectedShape(k) ==
    [i \in 1..(2 * (k + 1)) |->
        <<IF i % 2 = 1 THEN "table" ELSE "message", (i - 1) \div 2>>]
IsPrefix(f, g) == Len(f) <= Len(g) /\ \A i \in 1..Len(f) : f[i] = g[i]

\* C21: the output is a table block then a message block for the initial
\* topology, then one table block and one message block per change, in this
\* order; a run that has ended after k changes has written k+1 blocks of
\* each kind; a table block is written with the tables doBellmanFordAlg
\* ended in on the nodes and links of that many changes
C21_TraceOrder ==
    /\ [](IsPrefix(Shape(file), ExpectedShape(nchg)))
    /\ [](pc \in {"done", "fatal"} => Shape(file) = ExpectedShape(nchg))
    /\ [][(pc = "write" /\ file' # file) =>
            /\ file' = Append(file, TableBlock(nchg))
            /\ ~updated
            /\ routers = FromScratch(nodes, links)]_vars

\* C22: no step of sendMessages changes a routing table, the node set or
\* the link list, and the message list is the one read in the first round
C22_SendIsReadOnly ==
    /\ [][(pc \in {"send", "walk"}) =>
            (routers' = routers /\ nodes' = nodes /\ links' = links)]_vars
    /\ [][(pc # "readmsg") => messages' = messages]_vars

\* The second call of sendMessages has returned after walks of two hops
C22_Witness ==
    /\ pc = "chg"
    /\ nchg = 1
    /\ Len(file) = 4
    /\ \E i \in 1..Len(out) : Len(out[i].hops) >= 2

\* C23: a lookup of an id without router ends the run: no step follows it,
\* no router is created and no table is changed; when the id is the source
\* of a message, neither that message nor a later one has a line in the
\* stream or in the file
C23_LookupFatal ==
    /\ [][(pc = "send" /\ midx <= Len(messages) /\
           ~HasRouter(routers, messages[midx].sourceID)) =>
            (pc' = "fatal" /\ routers' = routers /\ out' = out)]_vars
    /\ [][(pc' = "fatal") => routers' = routers]_vars
    /\ [][(pc = "fatal") => FALSE]_vars
    /\ [](pc = "fatal" =>
            /\ DOMAIN routers = nodes
            /\ Len(out) < midx
            /\ \A i \in 1..Len(file) :
                  (file[i].kind = "message" /\ file[i].changes = nchg)
                      => file[i].lines < midx)

\* The run has ended at the second message of the first round, whose
\* source has no router, and the line of the first message is lost
C23_Witness ==
    /\ pc = "fatal"
    /\ nchg = 0
    /\ file = <<TableBlock(0)>>
    /\ midx = MaxMsgs
    /\ ~HasRouter(routers, messages[midx].sourceID)
    /\ HasRouter(routers, messages[1].sourceID)

\* C24: on the topology {(1,2,1),(2,3,1),(1,3,5)} the converged route of
\* node 1 to 3 is next hop 2 at cost 2, and the message from 1 to 3 is
\* reported with cost 2 and the hops 1 2
C24_Example ==
    (nchg = 0 /\ {links[i] : i \in 1..Len(links)} = ExampleLinks) =>
        /\ Converged => routers[1][3] = <<2, 2>>
        /\ pc \in {"chg", "done"} =>
              out = <<Delivered(Message(1, 3), 2, <<1, 2>>)>>

\* sendMessages has returned on the example topology
C24_Witness ==
    /\ pc = "chg"
    /\ nchg = 0
    /\ {links[i] : i \in 1..Len(links)} = ExampleLinks
    /\ messages = <<Message(1, 3)>>
    /\ Len(out) = 1
    /\ file = <<TableBlock(0), MessageBlock(0, out)>>

\* C25: addRoute(dest, nextHop, cost) makes the entry for dest the pair
\* (nextHop, cost) and leaves every other entry of the table as it was; a
\* second call with the same arguments changes nothing; a step of
\* doBellmanFordAlg that calls it changes one entry of one router
C25_AddRoute ==
    /\ [](\A r \in DOMAIN routers : \A d \in nodes :
            \A n \in nodes \cup {NOHOP} : \A c \in Costs \cup {INFCOST} :
                LET t == routers[r]
                    u == addRoute(t, d, n, c)
                IN /\ u[d] = <<n, c>>
                   /\ DOMAIN u = DOMAIN t \cup {d}
                   /\ \A x \in DOMAIN t \ {d} : u[x] = t[x]
                   /\ addRoute(u, d, n, c) = u)
    /\ [][(pc = "relax" /\ routers' # routers) =>
            /\ DOMAIN routers' = DOMAIN routers
            /\ \A r \in DOMAIN routers \ {rid} : routers'[r] = routers[r]
            /\ DOMAIN routers'[rid] = DOMAIN routers[rid]
            /\ \A x \in DOMAIN routers[rid] \ {did} :
                  routers'[rid][x] = routers[rid][x]
            /\ routers'[rid][did] =
                  <<neighbourOf(links[lidx], rid),
                    candidateCost(routers, rid, did, neighbourOf(links[lidx], rid))>>]_vars

\* Inside doBellmanFordAlg after a change, right after addRoute replaced
\* the entry of the running (router, destination) pair
C25_Witness ==
    /\ pc = "relax"
    /\ nchg = 1
    /\ updated
    /\ newNextHop # NOHOP
    /\ routers[rid][did] = <<newNextHop, curPathCost>>
    /\ routers[rid][did] # SeedRouters(nodes, links)[rid][did]

\* C26: for an id without entry getNextHop and getPathCost answer -1, and
\* the lookups sendMessages makes for such an id change no table;
\* getPathCost answers 9999 only for an id that has an entry
C26_MissingEntry ==
    /\ [](\A r \in DOMAIN routers : \A d \in NodeIds \cup {0, NOHOP} :
            /\ ~contains(routers[r], d) =>
                  /\ getNextHop(routers[r], d) = -1
                  /\ getPathCost(routers[r], d) = -1
            /\ getPathCost(routers[r], d) = INFCOST => contains(routers[r], d))
    /\ [][(pc = "send" /\ midx <= Len(messages) /\
           HasRouter(routers, messages[midx].sourceID) /\
           ~contains(routers[messages[midx].sourceID], messages[midx].destinationID)) =>
            (pathCost' = -1 /\ pc' = "walk" /\ routers' = routers)]_vars
    /\ [][(pc = "walk" /\ HasRouter(routers, currentID) /\
           ~contains(routers[currentID], messages[midx].destinationID)) =>
            (currentID' = -1 /\ routers' = routers)]_vars

\* The walk for a message to an id without entry: getPathCost answered -1
\* and getNextHop answered -1
C26_Witness ==
    /\ pc = "walk"
    /\ messages[midx].destinationID \notin nodes
    /\ HasRouter(routers, messages[midx].sourceID)
    /\ pathCost = -1
    /\ currentID = -1
    /\ hops = <<messages[midx].sourceID>>

\* ------------------------------------------------------------------------
\* lsr: the shortest paths of a topology vector
LsrPathCosts(ls, s, d) == WalkCosts(ls, LinkNodes(ls), s, d, Cardinality(LinkNodes(ls)) - 1)
LsrCheapest(ls, s, d) == SetMin(LsrPathCosts(ls, s, d))

\* C27: lsr, after the initial Dijkstra computation: for every pair of
\* connected nodes (s, d) of the topology the table of s has an entry for d
\* whose cost is the cost of the shortest path from s to d, destinations two
\* or more hops away included
C27_LsrShortestPaths ==
    (pc = "lsrwrite" /\ nchg = 0) =>
        \A s \in LinkNodes(links) : \A d \in LinkNodes(links) :
            LsrPathCosts(links, s, d) # {} =>
                /\ s \in DOMAIN routingTables
                /\ d \in DOMAIN routingTables[s]
                /\ routingTables[s][d][2] = LsrCheapest(links, s, d)

\* The topology vector with the first k change records applied: a record
\* removes the link of its pair and, unless its cost is -999, puts the link
\* back at the new cost
RECURSIVE Changed(_, _, _)
Changed(ls, cs, k) ==
    IF k = 0 THEN ls
    ELSE IF cs[k].pathCost = REMOVE
         THEN Others(Changed(ls, cs, k - 1), cs[k].node1, cs[k].node2)
         ELSE Append(Others(Changed(ls, cs, k - 1), cs[k].node1, cs[k].node2), cs[k])

\* C28: lsr, after each change record: the link-state database and the
\* tables are recomputed, so the tables written after change i hold, for
\* every connected pair, the shortest-path next hop and cost of the topology
\* with the first i changes applied, and the database holds that topology
C28_LsrRecomputed ==
    (pc = "lsrwrite" /\ nchg >= 1) =>
        /\ \A a \in NodeIds : \A b \in NodeIds \ {a} :
              IF Linked(Changed(links, changes, nchg), a, b)
              THEN /\ a \in DOMAIN lsdb
                   /\ b \in DOMAIN lsdb[a]
                   /\ lsdb[a][b] = LinkCost(Changed(links, changes, nchg), a, b)
              ELSE ~(a \in DOMAIN lsdb /\ b \in DOMAIN lsdb[a])
        /\ \A s \in LinkNodes(Changed(links, changes, nchg)) :
           \A d \in LinkNodes(Changed(links, changes, nchg)) :
              LsrPathCosts(Changed(links, changes, nchg), s, d) # {} =>
                /\ s \in DOMAIN routingTables
                /\ d \in DOMAIN routingTables[s]
                /\ routingTables[s][d][2] = LsrCheapest(Changed(links, changes, nchg), s, d)
                /\ IF s = d THEN routingTables[s][d][1] = s
                   ELSE /\ Linked(Changed(links, changes, nchg), s, routingTables[s][d][1])
                        /\ LinkCost(Changed(links, changes, nchg), s, routingTables[s][d][1])
                             + LsrCheapest(Changed(links, changes, nchg), routingTables[s][d][1], d)
                           = LsrCheapest(Changed(links, changes, nchg), s, d)

\* C29: in each relaxation step of doBellmanFordAlg, the candidate cost for
\* router R to reach D through neighbour N is the cost of the link R-N plus
\* N's current cost to D
C29_CandidateIsLinkPlusNeighbour ==
    (/\ pc = "relax"
     /\ lidx \in 1..Len(links)
     /\ neighbourOf(links[lidx], rid) # -1
     /\ neighbourOf(links[lidx], rid) # did
     /\ HasRouter(routers, neighbourOf(links[lidx], rid))
     /\ ~skipsLink(routers, rid, did, neighbourOf(links[lidx], rid))) =>
        candidateCost(routers, rid, did, neighbourOf(links[lidx], rid))
            = links[lidx].pathCost + getPathCost(routers[neighbourOf(links[lidx], rid)], did)

\* C30: the equal-cost branch of doBellmanFordAlg never fires: a candidate
\* whose cost equals the current best cost never replaces a route's next
\* hop, so the first-found route of a given cost always wins
C30_EqualCostNeverReplaces ==
    [][(/\ pc = "relax"
        /\ lidx \in 1..Len(links)
        /\ neighbourOf(links[lidx], rid) # -1
        /\ neighbourOf(links[lidx], rid) # did
        /\ HasRouter(routers, neighbourOf(links[lidx], rid))
        /\ ~skipsLink(routers, rid, did, neighbourOf(links[lidx], rid))
        /\ candidateCost(routers, rid, did, neighbourOf(links[lidx], rid)) = curPathCost) =>
            routers' = routers]_vars

\* The neighbours of r that the inner loop does not skip for destination d
\* and whose candidate cost equals the cost r has stored for d
TiedNeighbours(r, d) ==
    {n \in nodes \ {r, d} :
        /\ Linked(links, r, n)
        /\ ~skipsLink(routers, r, d, n)
        /\ candidateCost(routers, r, d, n) = getPathCost(routers[r], d)}

\* C31: after convergence, whenever two or more neighbours of R that split
\* horizon does not block yield the same minimal cost to D, and R's route
\* to D goes through one of them, R's next hop to D is the one of lowest id
C31_LowestIdTieBreak ==
    Converged =>
        \A r \in nodes : \A d \in nodes \ {r} :
            (/\ Cardinality(TiedNeighbours(r, d)) >= 2
             /\ getNextHop(routers[r], d) \in TiedNeighbours(r, d)) =>
                getNextHop(routers[r], d) = SetMin(TiedNeighbours(r, d))

\* The hop list of a written line follows the next hops stored for its
\* destination, from router to router up to the destination, names no
\* router twice and does not name the destination
HopsFollowWalk(line) ==
    /\ \A i \in 1..(Len(line.hops) - 1) :
          /\ HasRouter(routers, line.hops[i])
          /\ line.hops[i + 1] = getNextHop(routers[line.hops[i]], line.destinationID)
    /\ Len(line.hops) >= 1 =>
          /\ HasRouter(routers, line.hops[Len(line.hops)])
          /\ getNextHop(routers[line.hops[Len(line.hops)]], line.destinationID) = line.destinationID
    /\ NoRepeat(line.hops)
    /\ \A i \in 1..Len(line.hops) : line.hops[i] # line.destinationID

\* The states in which the tables are those the lines of out were made from
LinesCurrent == pc \in {"send", "walk", "chg", "done", "fatal"}

\* C32: for every message that is not reported unreachable, the hop list
\* written by sendMessages starts with the source id, lists each router of
\* the next-hop walk once in walk order and never contains the destination
\* id, a message whose source equals its destination included
C32_HopList ==
    LinesCurrent =>
        \A i \in 1..Len(out) :
            ~out[i].unreachable =>
                /\ Len(out[i].hops) >= 1
                /\ out[i].hops[1] = out[i].sourceID
                /\ HopsFollowWalk(out[i])

\* C32, amended: the hop list of a message whose source differs from its
\* destination starts with the source id, lists each router of the next-hop
\* walk once in walk order and never contains the destination id; the hop
\* list of a message whose source equals its destination is empty
C32_HopListAmended ==
    LinesCurrent =>
        \A i \in 1..Len(out) :
            ~out[i].unreachable =>
                /\ IF out[i].sourceID = out[i].destinationID
                   THEN out[i].hops = <<>>
                   ELSE Len(out[i].hops) >= 1 /\ out[i].hops[1] = out[i].sourceID
                /\ HopsFollowWalk(out[i])

\* A written line of two hops and a written line of a message from a node
\* to itself
C32_Witness ==
    /\ pc = "send"
    /\ \E i \in 1..Len(out) : ~out[i].unreachable /\ Len(out[i].hops) = 2
    /\ \E i \in 1..Len(out) :
          /\ ~out[i].unreachable
          /\ out[i].sourceID = out[i].destinationID
          /\ out[i].cost = 0

\* C33: in every state from the seeding on, every routing-table entry of a
\* router R has as next hop R itself (only for destination R), -1, or a
\* node joined to R by a link of the current link list
C33_NextHopIsNeighbour ==
    pc # "start" =>
        \A r \in DOMAIN routers : \A d \in DOMAIN routers[r] :
            \/ getNextHop(routers[r], d) = r /\ d = r
            \/ getNextHop(routers[r], d) = NOHOP
            \/ /\ getNextHop(routers[r], d) # r
               /\ Linked(links, r, getNextHop(routers[r], d))

\* Tables converged after the removal of a link that joined two known
\* nodes, in which a router reaches the other end of the removed link
\* through a third node
C33_Witness ==
    /\ pc = "write"
    /\ nchg = 1
    /\ change.pathCost = REMOVE
    /\ ~Linked(links, change.node1, change.node2)
    /\ getNextHop(routers[change.node1], change.node2) \notin {NOHOP, change.node1, change.node2}
    /\ Linked(links, change.node1, getNextHop(routers[change.node1], change.node2))

\* C34: in every state from the seeding on, for a topology whose link
\* costs and path sums are below 9999, an entry has next hop -1 if and only
\* if its cost is 9999, and an entry of another cost names a known node as
\* its next hop
C34_SentinelsTogether ==
    (/\ pc # "start"
     /\ \A i \in 1..Len(links) : links[i].pathCost < INFCOST
     /\ PathSumsSmall) =>
        \A r \in DOMAIN routers : \A d \in DOMAIN routers[r] :
            /\ (getNextHop(routers[r], d) = NOHOP) <=> (getPathCost(routers[r], d) = INFCOST)
            /\ getPathCost(routers[r], d) # INFCOST => getNextHop(routers[r], d) \in nodes

\* Inside doBellmanFordAlg after a change, with a router that has already
\* adopted a route through a neighbour while a router not yet visited still
\* holds the pair (-1, 9999) for some destination
C34_Witness ==
    /\ pc = "relax"
    /\ nchg = 1
    /\ \E r \in nodes : \E d \in nodes \ {r} :
          /\ getNextHop(routers[r], d) \notin {NOHOP, d}
          /\ getPathCost(routers[r], d) < INFCOST
    /\ \E r \in nodes : \E d \in nodes : routers[r][d] = <<NOHOP, INFCOST>>

\* C35: within one run of doBellmanFordAlg no step increases the cost
\* stored for any (router, destination) pair, and the step of a sweep that
\* sets 'updated' strictly decreases a stored cost, so that every sweep
\* that sets it contains a strict decrease
C35_CostsOnlyDecrease ==
    /\ [][(pc \in {"bf", "sweep", "relax"}) =>
            /\ DOMAIN routers' = DOMAIN routers
            /\ \A r \in DOMAIN routers :
                  /\ DOMAIN routers'[r] = DOMAIN routers[r]
                  /\ \A d \in DOMAIN routers[r] :
                        getPathCost(routers'[r], d) <= getPathCost(routers[r], d)]_vars
    /\ [][(pc = "relax" /\ ~updated /\ updated') =>
            getPathCost(routers'[rid], did) < getPathCost(routers[rid], did)]_vars

\* A sweep after a change that has set 'updated' and whose running pass has
\* adopted a route of finite cost
C35_Witness ==
    /\ pc = "relax"
    /\ nchg = 1
    /\ updated
    /\ newNextHop # -1
    /\ routers[rid][did] = <<newNextHop, curPathCost>>
    /\ curPathCost < INFCOST

\* C36: in every state during and after convergence on a topology with
\* non-negative link costs, each cost other than 9999 that router R stores
\* for destination D belongs to a destination connected to R and is at
\* least the cost of the cheapest path from R to D in the current topology
C36_NeverUnderestimates ==
    (pc # "start" /\ NonNegativeCosts) =>
        \A r \in nodes : \A d \in nodes :
            getPathCost(routers[r], d) # INFCOST =>
                /\ Connected(r, d)
                /\ getPathCost(routers[r], d) >= Cheapest(r, d)

\* C37: after convergence, on any topology, path costs are symmetric: for
\* all known nodes a and b, a's cost to b equals b's cost to a (9999 on
\* both sides when they are disconnected)
C37_CostsSymmetric ==
    Converged =>
        \A a \in nodes : \A b \in nodes :
            /\ getPathCost(routers[a], b) = getPathCost(routers[b], a)
            /\ ~Connected(a, b) => getPathCost(routers[a], b) = INFCOST

\* sendMessages is at a message whose source has a router and whose
\* destination is not a known node
StrayDestination ==
    /\ pc \in {"send", "walk"}
    /\ midx <= Len(messages)
    /\ HasRouter(routers, messages[midx].sourceID)
    /\ messages[midx].destinationID \notin nodes

====
